---- MODULE Spec2Model ----
(***************************************************************************)
(* Model of the NigPing VPS agent (vps-agent index.ts): identity           *)
(* provisioning, self-registration, initial sync, the realtime change-feed *)
(* callback and updateWireGuardConfig with its hot-reload / restart        *)
(* fallback.  The agent is one Node.js process: synchronous code           *)
(* (execSync, writeFileSync) runs to completion on the single JS thread,   *)
(* every `await` is a point where other callbacks may run.                 *)
(***************************************************************************)
EXTENDS Integers, Sequences, FiniteSets, TLC

\* ---------------------------------------------------------------- bounds
MaxChanges == 2        \* peer-table changes made by the registration API
MaxBoots == 2          \* times the agent process is started on this host
MaxRequests == 6       \* POST /register requests one user sends
MaxCalls == 3          \* allocate_server_ip calls made for one relay

\* ------------------------------------------------------- program constants
ListenPort == 51820
AllowedIPsPrefix == 32

\* Option values: None is JS null / an absent file, Some(x) a present value.
None == <<>>
Some(x) == <<x>>
IsSome(o) == Len(o) = 1
The(o) == o[1]

\* The vpn_profiles rows of this relay the registration API may activate.
ProfileRows ==
  { [id |-> 1, user_id |-> "u1", device_name |-> "laptop",
     public_key |-> "pkA", allowed_ip |-> "10.0.0.2", is_active |-> TRUE],
    [id |-> 2, user_id |-> "u2", device_name |-> "phone",
     public_key |-> "pkB", allowed_ip |-> "10.0.0.3", is_active |-> TRUE] }

PassIds == 0 .. MaxChanges          \* pass 0 is the initial sync

\* POST /register: `count >= 5`, "max 5 devices per user".
DeviceCap == 5

Requests == 1 .. MaxRequests
Calls == 1 .. MaxCalls

VARIABLES
  pc,          \* position of main(): the statement it runs or awaits at
  phases,      \* startup phases entered so far, in order
  keyFiles,    \* TRUE when /etc/wireguard/private.key and public.key exist
  relayRows,   \* number of rows of table servers with ip = publicIp
  rpc,         \* the registration query/insert main() is awaiting
  profiles,    \* active vpn_profiles rows of this relay in the store
  changes,     \* number of peer-table changes so far
  sub,         \* state of the realtime channel
  feed,        \* change events emitted by the store, not yet delivered
  delivered,   \* number of change events delivered to the callback
  pass,        \* reconciliation passes: query, response, outcome
  apply,       \* the running or last updateWireGuardConfig call
  confFile,    \* contents of /etc/wireguard/wg0.conf
  stripFile,   \* contents of /tmp/wg0.strip
  iface,       \* the kernel interface wg0
  lastApplied, \* config of the last apply that returned without throwing
  serving,     \* TRUE once the health endpoint listens
  keyGen,      \* id of the key the key files hold, 0 when they hold none
  genCalls,    \* invocations of the key-generation command on this host
  identity,    \* the key pair ensureKeys() returned to this process
  firstIdentity, \* the first key pair ensureKeys() ever returned, and the boot
  boots,       \* number of process starts so far
  regRuns,     \* number of completed check/register sections
  envPublicIp, \* TRUE when process.env.PUBLIC_IP is set
  echoCalls,   \* calls of `curl -s ifconfig.me` by this process
  publicIp,    \* the address main() resolved
  exitCode,    \* status passed to process.exit, -1 while running
  console,     \* error lines written by the step just taken
  devices,     \* vpn_profiles rows of one user, by the request that made them
  reg,         \* POST /register requests of that user: position, count read
  allocs,      \* vpn_server_allocations rows of one relay
  alloc        \* allocate_server_ip calls for that relay: position, octet

\* State of identity, address resolution and process lifetime.
bootVars == <<keyGen, genCalls, identity, firstIdentity, boots, regRuns,
              envPublicIp, echoCalls, publicIp, exitCode>>

\* State of the registration API and its tables.
apiVars == <<devices, reg, allocs, alloc>>

vars == <<pc, phases, keyFiles, relayRows, rpc, profiles, changes, sub, feed,
          delivered, pass, apply, confFile, stripFile, iface, lastApplied,
          serving, bootVars, console, apiVars>>

\* State of the agent, its host and its tables.
agentVars == <<pc, phases, keyFiles, relayRows, rpc, profiles, changes, sub,
               feed, delivered, pass, apply, confFile, stripFile, iface,
               lastApplied, serving, bootVars, console>>

\* The step writes no error line.
Quiet == console' = {}

\* ------------------------------------------------------------ pure helpers
RECURSIVE Perms(_)
Perms(S) ==
  IF S = {} THEN { <<>> }
  ELSE UNION { { <<x>> \o t : t \in Perms(S \ {x}) } : x \in S }

Range(s) == { s[i] : i \in 1 .. Len(s) }

\* A line of a WireGuard config text: its key (or section header, "#" for a
\* comment, "" for a blank line) and the words of its value.
Line(k, v) == [k |-> k, v |-> v]

\* A device name that holds line breaks: device_name is TEXT in the store and
\* the registration API takes any non-empty string.
MultiLineName == "tablet\nPublicKey = pkX\nAllowedIPs = 0.0.0.0/0\n[Peer]"

\* A string interpolated into the template, split at its line breaks: the
\* part that stays on the template's line and the lines that follow it.
SplitLines(text) ==
  IF text = MultiLineName
  THEN [first |-> "tablet",
        rest |-> <<Line("PublicKey", <<"pkX">>),
                   Line("AllowedIPs", <<"0.0.0.0", 0>>),
                   Line("[Peer]", <<>>)>>]
  ELSE [first |-> text, rest |-> <<>>]

\* updateWireGuardConfig, the template part: the text is kept as the
\* sequence of its lines.
InterfaceSection(privateKey) ==
  <<Line("[Interface]", <<>>),
    Line("PrivateKey", <<privateKey>>),
    Line("ListenPort", <<ListenPort>>),
    Line("SaveConfig", <<"false">>),
    Line("Address", <<"10.0.0.1", 24>>),
    Line("PostUp", <<"iptables -A">>),
    Line("PostDown", <<"iptables -D">>),
    Line("", <<>>)>>

PeerSection(p) ==
  <<Line("[Peer]", <<>>),
    Line("#", <<p.user_id, SplitLines(p.device_name).first>>)>> \o
  SplitLines(p.device_name).rest \o
  <<Line("PublicKey", <<p.public_key>>),
    Line("AllowedIPs", <<p.allowed_ip, AllowedIPsPrefix>>),
    Line("", <<>>)>>

RECURSIVE Concat(_)
Concat(ss) == IF ss = <<>> THEN <<>> ELSE Head(ss) \o Concat(Tail(ss))

\* Variant: the text starts with a comment counting the events seen so far.
RenderConfig_Stamped(peers, privateKey) ==
  <<Line("#", <<"reload", delivered>>)>> \o
  InterfaceSection(privateKey) \o
  Concat([i \in 1 .. Len(peers) |-> PeerSection(peers[i])])

RenderConfig(peers, privateKey) ==
  InterfaceSection(privateKey) \o
  Concat([i \in 1 .. Len(peers) |-> PeerSection(peers[i])])

\* The sections of a config text as wg and wg-quick read it: a section runs
\* from its header to the line before the next header, comments and blank
\* lines are skipped, and a key has the value of its last line in the section.
Sections(lines) ==
  LET H == { i \in 1 .. Len(lines) : lines[i].k \in {"[Interface]", "[Peer]"} }
      start(j) == CHOOSE i \in H : Cardinality({ h \in H : h <= i }) = j
      end(j) == IF j < Cardinality(H) THEN start(j + 1) - 1 ELSE Len(lines)
      Value(j, key) ==
        LET at == { i \in start(j) .. end(j) : lines[i].k = key }
        IN IF at = {} THEN None
           ELSE lines[CHOOSE i \in at : \A l \in at : l <= i].v
  IN [j \in 1 .. Cardinality(H) |->
        IF lines[start(j)].k = "[Interface]"
        THEN [section |-> "Interface",
              PrivateKey |-> Value(j, "PrivateKey"),
              ListenPort |-> Value(j, "ListenPort")]
        ELSE [section |-> "Peer",
              PublicKey |-> Value(j, "PublicKey"),
              AllowedIPs |-> Value(j, "AllowedIPs")]]

\* The peers a config text carries, as wg sees them.
ConfigPeers(config) ==
  LET secs == Sections(config)
  IN { [PublicKey |-> IF IsSome(secs[j].PublicKey)
                      THEN secs[j].PublicKey[1] ELSE "",
        AllowedIPs |-> secs[j].AllowedIPs] :
         j \in { l \in 1 .. Len(secs) : secs[l].section = "Peer" } }

\* wg-quick strip: the wg(8) part of the file (keys, port, peers).
Strip(config) ==
  LET secs == Sections(config)
  IN [PrivateKey |-> secs[1].PrivateKey[1],
      ListenPort |-> secs[1].ListenPort[1],
      peers |-> ConfigPeers(config)]

\* wg and wg-quick accept a text only if every peer section has a key and
\* an address: an empty PublicKey is "Key is not the correct length or format".
WellFormed(config) ==
  LET secs == Sections(config)
  IN \A j \in 1 .. Len(secs) :
       secs[j].section = "Peer" =>
         /\ secs[j].PublicKey /= None /\ secs[j].PublicKey[1] /= ""
         /\ secs[j].AllowedIPs /= None /\ secs[j].AllowedIPs[1] /= ""

StorePeers(rows) ==
  { [PublicKey |-> r.public_key,
     AllowedIPs |-> <<r.allowed_ip, AllowedIPsPrefix>>] : r \in rows }

PrivateKey == "privK"

NoPass ==
  [status |-> "unused", data |-> None, error |-> FALSE, outcome |-> "none",
   logged |-> FALSE]

\* No updateWireGuardConfig call has been made yet.
NoApply ==
  [step |-> "idle", pass |-> -1, before |-> None, wrote |-> FALSE,
   cmds |-> <<>>, outcome |-> "none"]

\* main() awaits no registration query.
NoRpc == [kind |-> "none", state |-> "none", found |-> FALSE, error |-> FALSE]

\* Variant: continuations run while a subprocess of the apply is running.
JsIdle_Reentrant == TRUE

\* The JS thread is not inside updateWireGuardConfig.
JsIdle == apply.step = "idle"

InFlight(i) == pass[i].status \in {"fetching", "answered", "applying"}

Alive == pc /= "Exited"

\* A request or call that has not been made.
NoReg == [pc |-> "idle", count |-> 0, status |-> 0]

NoCall == [pc |-> "idle", profile |-> 0, octet |-> 0, success |-> FALSE]

\* ------------------------------------------------------------------- Init
InitCommon ==
  /\ pc = "Start"
  /\ phases = <<>>
  /\ keyFiles \in BOOLEAN
  /\ keyGen = (IF keyFiles THEN 1 ELSE 0)
  /\ genCalls = (IF keyFiles THEN 1 ELSE 0)
  /\ identity = None
  /\ firstIdentity = None
  /\ boots = 1
  /\ regRuns = 0
  /\ echoCalls = 0
  /\ publicIp = None
  /\ exitCode = -1
  /\ console = {}
  /\ relayRows \in {0, 1}
  /\ rpc = NoRpc
  /\ profiles \in SUBSET ProfileRows
  /\ changes = 0
  /\ sub = "disconnected"
  /\ feed = <<>>
  /\ delivered = 0
  /\ pass = [i \in PassIds |-> NoPass]
  /\ apply = NoApply
  /\ confFile = None
  /\ stripFile = None
  /\ iface \in { [up |-> FALSE, peers |-> {}], [up |-> TRUE, peers |-> {}] }
  /\ lastApplied = None
  /\ serving = FALSE
  /\ devices = {}
  /\ reg = [r \in Requests |-> NoReg]
  /\ allocs = {}
  /\ alloc = [c \in Calls |-> NoCall]

\* A host set up by deploy-vps.sh, which writes PUBLIC_IP to the environment.
Init ==
  /\ InitCommon
  /\ envPublicIp = TRUE

\* ---------------------------------------------------------------- startup
\* Module level: a missing SUPABASE_URL / key is fatal; else main() starts.
Boot ==
  /\ pc = "Start"
  /\ \E envOk \in BOOLEAN :
       IF envOk
       THEN /\ pc' = "ensureKeys"
            /\ phases' = Append(phases, "Provisioning")
            /\ exitCode' = exitCode
            /\ Quiet
       ELSE /\ pc' = "Exited"
            /\ exitCode' = 1
            /\ console' = {"Missing SUPABASE_URL or SUPABASE_SERVICE_ROLE_KEY"}
            /\ UNCHANGED phases
  /\ UNCHANGED <<keyFiles, relayRows, rpc, profiles, changes, sub, feed,
                 delivered, pass, apply, confFile, stripFile, iface,
                 lastApplied, serving>>
  /\ UNCHANGED apiVars
  /\ UNCHANGED <<keyGen, genCalls, identity, firstIdentity, boots, regRuns,
                 envPublicIp, echoCalls, publicIp>>

\* Variant: ensureKeys generates a fresh pair on every boot.
ShouldGenerate_Always(exists) == TRUE

\* ensureKeys: `if (!existsSync(privKeyPath))`.
ShouldGenerate(exists) == ~exists

\* Variant: a provisioning failure is logged and main() carries on.
AfterKeysFailure_Continue == "getPublicIp"

\* main: the catch around ensureKeys() calls process.exit(1).
AfterKeysFailure == "Exited"

\* main, A. Auto-Provisioning: ensureKeys() runs
\* `wg genkey | tee private.key | wg pubkey > public.key` when the private
\* key is absent, then reads both files; any throw exits the process.  A
\* failing pipeline has either created no file or left both files empty.
Main_EnsureKeys ==
  /\ pc = "ensureKeys"
  /\ \E gen \in {"ok", "noFiles", "emptyFiles"}, readOk \in BOOLEAN :
       LET runs == ShouldGenerate(keyFiles)
           files == IF runs /\ gen /= "noFiles" THEN TRUE ELSE keyFiles
           key == IF ~runs \/ gen = "noFiles" THEN keyGen
                  ELSE IF gen = "ok" THEN genCalls + 1 ELSE 0
           ok == (~runs \/ gen = "ok") /\ files /\ readOk
           next == IF ok THEN "getPublicIp" ELSE AfterKeysFailure
       IN /\ ~runs => gen = "ok"
          /\ (runs /\ gen /= "ok") => readOk
          /\ genCalls' = IF runs THEN genCalls + 1 ELSE genCalls
          /\ keyFiles' = files
          /\ keyGen' = key
          /\ identity' = IF ok THEN Some(<<key, key>>) ELSE None
          /\ firstIdentity' = IF ok /\ firstIdentity = None
                              THEN Some([boot |-> boots, pair |-> <<key, key>>])
                              ELSE firstIdentity
          /\ pc' = next
          /\ phases' = IF ok THEN Append(phases, "Registering") ELSE phases
          /\ exitCode' = IF next = "Exited" THEN 1 ELSE exitCode
          /\ console' = IF ok THEN {} ELSE {"Failed to generate/read keys"}
  /\ UNCHANGED <<relayRows, rpc, profiles, changes, sub, feed, delivered,
                 pass, apply, confFile, stripFile, iface, lastApplied,
                 serving>>
  /\ UNCHANGED apiVars
  /\ UNCHANGED <<boots, regRuns, envPublicIp, echoCalls, publicIp>>

\* The value of process.env.PUBLIC_IP when set, and the answer of ifconfig.me.
OverrideIp == "198.51.100.7"
EchoIp == "203.0.113.9"

\* Variant: an empty address is accepted.
ResolvedOk_NoCheck(ip) == TRUE

\* main: `if (!publicIp) throw new Error("Public IP is empty")`.
ResolvedOk(ip) == ip /= ""

\* main: getPublicIp() returns PUBLIC_IP when set and else runs curl, which
\* throws, prints nothing or prints the address; a throw or an empty result
\* exits, else the lookup of this relay in table servers is issued.
Main_GetPublicIp ==
  /\ pc = "getPublicIp"
  /\ \E echo \in {"fail", "", EchoIp} :
       LET ip == IF envPublicIp THEN OverrideIp ELSE echo
           ok == ip /= "fail" /\ ResolvedOk(ip)
       IN /\ envPublicIp => echo = EchoIp
          /\ echoCalls' = IF envPublicIp THEN echoCalls ELSE echoCalls + 1
          /\ IF ok
             THEN /\ pc' = "lookupWait"
                  /\ rpc' = [kind |-> "lookup", state |-> "sent",
                             found |-> FALSE, error |-> FALSE]
                  /\ publicIp' = Some(ip)
                  /\ exitCode' = exitCode
                  /\ Quiet
             ELSE /\ pc' = "Exited"
                  /\ exitCode' = 1
                  /\ console' = {"Failed to get public IP"}
                  /\ UNCHANGED <<rpc, publicIp>>
  /\ UNCHANGED <<phases, keyFiles, relayRows, profiles, changes, sub, feed,
                 delivered, pass, apply, confFile, stripFile, iface,
                 lastApplied, serving>>
  /\ UNCHANGED apiVars
  /\ UNCHANGED <<keyGen, genCalls, identity, firstIdentity, boots, regRuns,
                 envPublicIp>>

\* The store answers select * from servers where ip = publicIp.
Store_AnswerLookup ==
  /\ rpc.kind = "lookup" /\ rpc.state = "sent"
  /\ \E ok \in BOOLEAN :
       rpc' = [rpc EXCEPT !.state = "answered",
                          !.found = ok /\ relayRows > 0,
                          !.error = ~ok]
  /\ UNCHANGED <<pc, phases, keyFiles, relayRows, profiles, changes, sub,
                 feed, delivered, pass, apply, confFile, stripFile, iface,
                 lastApplied, serving>>
  /\ UNCHANGED <<bootVars, apiVars>> /\ Quiet

\* main, B. Initial Sync: the active-peers query is issued and awaited.
StartInitialSync ==
  /\ pc' = "syncWait"
  /\ phases' = Append(phases, "InitialSync")
  /\ pass' = [pass EXCEPT ![0] = [NoPass EXCEPT !.status = "fetching"]]

\* main after the lookup: a fetch error is logged; without a row the insert
\* is issued, otherwise the initial sync starts.
Main_AfterLookup ==
  /\ pc = "lookupWait"
  /\ rpc.kind = "lookup" /\ rpc.state = "answered"
  /\ console' = IF rpc.error THEN {"Error fetching server info"} ELSE {}
  /\ IF ~rpc.found
     THEN /\ pc' = "insertWait"
          /\ rpc' = [kind |-> "insert", state |-> "sent",
                     found |-> FALSE, error |-> FALSE]
          /\ UNCHANGED <<phases, pass, regRuns>>
     ELSE /\ StartInitialSync
          /\ rpc' = NoRpc
          /\ regRuns' = regRuns + 1
  /\ UNCHANGED <<keyFiles, relayRows, profiles, changes, sub, feed, delivered,
                 apply, confFile, stripFile, iface, lastApplied, serving>>
  /\ UNCHANGED apiVars
  /\ UNCHANGED <<keyGen, genCalls, identity, firstIdentity, boots,
                 envPublicIp, echoCalls, publicIp, exitCode>>

\* Variant: table servers without the UNIQUE constraint on ip.
InsertAllowed_NoUnique(rows) == TRUE

\* CREATE TABLE servers: `ip VARCHAR(45) NOT NULL UNIQUE`.
InsertAllowed(rows) == rows = 0

\* The store runs the insert; it fails on a duplicate ip or for its own
\* reasons.
Store_AnswerInsert ==
  /\ rpc.kind = "insert" /\ rpc.state = "sent"
  /\ \E ok \in BOOLEAN :
       LET inserted == ok /\ InsertAllowed(relayRows)
       IN /\ relayRows' = IF inserted THEN relayRows + 1 ELSE relayRows
          /\ rpc' = [rpc EXCEPT !.state = "answered", !.error = ~inserted]
  /\ UNCHANGED <<pc, phases, keyFiles, profiles, changes, sub, feed,
                 delivered, pass, apply, confFile, stripFile, iface,
                 lastApplied, serving>>
  /\ UNCHANGED <<bootVars, apiVars>> /\ Quiet

\* Another agent process booting with the same address (or an insert a
\* stopped process left in flight) registers the relay first.
Other_Register ==
  /\ InsertAllowed(relayRows)
  /\ relayRows' = relayRows + 1
  /\ UNCHANGED <<pc, phases, keyFiles, rpc, profiles, changes, sub, feed,
                 delivered, pass, apply, confFile, stripFile, iface,
                 lastApplied, serving>>
  /\ UNCHANGED <<bootVars, apiVars>> /\ Quiet

\* Variant: a failed registration stops the agent.
Main_AfterInsert_Fatal ==
  /\ pc = "insertWait"
  /\ rpc.kind = "insert" /\ rpc.state = "answered"
  /\ console' = IF rpc.error THEN {"Failed to register server"} ELSE {}
  /\ IF rpc.error
     THEN /\ pc' = "Exited"
          /\ exitCode' = 1
          /\ UNCHANGED <<phases, pass>>
     ELSE /\ StartInitialSync
          /\ exitCode' = exitCode
  /\ rpc' = NoRpc
  /\ regRuns' = regRuns + 1
  /\ UNCHANGED <<keyFiles, relayRows, profiles, changes, sub, feed, delivered,
                 apply, confFile, stripFile, iface, lastApplied, serving>>
  /\ UNCHANGED apiVars
  /\ UNCHANGED <<keyGen, genCalls, identity, firstIdentity, boots,
                 envPublicIp, echoCalls, publicIp>>

\* main after the insert: an insert error is logged and startup continues.
Main_AfterInsert ==
  /\ pc = "insertWait"
  /\ rpc.kind = "insert" /\ rpc.state = "answered"
  /\ console' = IF rpc.error THEN {"Failed to register server"} ELSE {}
  /\ StartInitialSync
  /\ rpc' = NoRpc
  /\ regRuns' = regRuns + 1
  /\ UNCHANGED <<keyFiles, relayRows, profiles, changes, sub, feed, delivered,
                 apply, confFile, stripFile, iface, lastApplied, serving>>
  /\ UNCHANGED apiVars
  /\ UNCHANGED <<keyGen, genCalls, identity, firstIdentity, boots,
                 envPublicIp, echoCalls, publicIp, exitCode>>

\* ------------------------------------------------------------------ store
\* The registration API activates or removes a profile of this relay; the
\* realtime service emits a change event only to a joined channel.
Store_PeerChange ==
  /\ changes < MaxChanges
  /\ \E r \in ProfileRows :
       LET ev == [eventType |-> IF r \in profiles THEN "DELETE" ELSE "INSERT",
                  row |-> r]
       IN /\ profiles' = IF r \in profiles THEN profiles \ {r}
                         ELSE profiles \cup {r}
          /\ feed' = IF sub = "subscribed" THEN Append(feed, ev) ELSE feed
  /\ changes' = changes + 1
  /\ UNCHANGED <<pc, phases, keyFiles, relayRows, rpc, sub, delivered, pass,
                 apply, confFile, stripFile, iface, lastApplied, serving>>
  /\ UNCHANGED <<bootVars, apiVars>> /\ Quiet

\* supabase-js resolves a query to {data, error}: rows on success, data null
\* with an error otherwise.
QueryResult(ok, rows) ==
  IF ok THEN [data |-> Some(rows), error |-> FALSE]
  ELSE [data |-> None, error |-> TRUE]

\* Variant: the agent's peer query deactivates the rows it returns.
QueryEffect_Deactivate(rows) == {}

\* What the agent's query does to table vpn_profiles: it is a
\* select("*").eq(...).eq(...), which leaves the rows as they are.
QueryEffect(rows) == rows

\* The store runs the active-peers query of pass i on its current rows (no
\* ORDER BY: any row order) or fails it.
Store_AnswerQuery(i) ==
  /\ pass[i].status = "fetching"
  /\ \E ok \in BOOLEAN, rows \in Perms(profiles) :
       /\ ~ok => rows = CHOOSE q \in Perms(profiles) : TRUE
       /\ LET res == QueryResult(ok, rows)
          IN pass' = [pass EXCEPT ![i].status = "answered",
                                  ![i].data = res.data,
                                  ![i].error = res.error]
  /\ profiles' = QueryEffect(profiles)
  /\ UNCHANGED <<pc, phases, keyFiles, relayRows, rpc, changes, sub,
                 feed, delivered, apply, confFile, stripFile, iface,
                 lastApplied, serving>>
  /\ UNCHANGED <<bootVars, apiVars>> /\ Quiet

\* ------------------------------------------------- updateWireGuardConfig
Site(i) == IF i = 0 THEN "initial" ELSE "event"

\* What the catch at a call site of updateWireGuardConfig writes.
CatchLine(site) ==
  IF site = "initial" THEN "Initial sync failed"
  ELSE "Failed to update WG config on change"

\* Variant: the change callback calls updateWireGuardConfig without try/catch.
Catches_InitialOnly(site) == site = "initial"

\* Both call sites wrap updateWireGuardConfig in try/catch and log.
Catches(site) == site \in {"initial", "event"}

\* Variant: the interface is restarted after every reload.
NextStep_AlwaysRestart(step, ok) ==
  CASE step = "write"    -> IF ok THEN "strip" ELSE "throw"
    [] step = "strip"    -> IF ok THEN "syncconf" ELSE "down"
    [] step = "syncconf" -> "down"
    [] step = "down"     -> "up"
    [] step = "up"       -> IF ok THEN "return" ELSE "throw"

\* Variant: a failing bring-down is not swallowed.
NextStep_DownEscalates(step, ok) ==
  CASE step = "write"    -> IF ok THEN "strip" ELSE "throw"
    [] step = "strip"    -> IF ok THEN "syncconf" ELSE "down"
    [] step = "syncconf" -> IF ok THEN "return" ELSE "down"
    [] step = "down"     -> IF ok THEN "up" ELSE "throw"
    [] step = "up"       -> IF ok THEN "return" ELSE "throw"

\* Variant: a failing bring-up is swallowed like a failing bring-down.
NextStep_UpSwallowed(step, ok) ==
  CASE step = "write"    -> IF ok THEN "strip" ELSE "throw"
    [] step = "strip"    -> IF ok THEN "syncconf" ELSE "down"
    [] step = "syncconf" -> IF ok THEN "return" ELSE "down"
    [] step = "down"     -> "up"
    [] step = "up"       -> "return"

\* Control flow of updateWireGuardConfig after the step `step` ended with ok:
\* strip and syncconf share one try block whose catch runs down (its own
\* failure swallowed) and then up, whose failure propagates.
NextStep(step, ok) ==
  CASE step = "write"    -> IF ok THEN "strip" ELSE "throw"
    [] step = "strip"    -> IF ok THEN "syncconf" ELSE "down"
    [] step = "syncconf" -> IF ok THEN "return" ELSE "down"
    [] step = "down"     -> "up"
    [] step = "up"       -> IF ok THEN "return" ELSE "throw"

\* The JS thread leaves step `step` of the running apply; when the call
\* returns or throws, control is back in the caller (main or the callback),
\* which ends and drops its local `peers` / `currentPeers`.
Advance(step, ok, newIface, isCmd) ==
  LET i == apply.pass
      next == NextStep(step, ok)
      ended == next \in {"return", "throw"}
      caught == next = "throw" /\ Catches(Site(i))
  IN /\ iface' = newIface
     /\ apply' = [apply EXCEPT
                    !.step = IF ended THEN "idle" ELSE next,
                    !.cmds = IF isCmd THEN Append(@, <<step, ok>>) ELSE @,
                    !.wrote = @ \/ (step = "write" /\ ok),
                    !.outcome = IF next = "return" THEN "ok"
                                ELSE IF next = "throw" THEN "threw" ELSE @]
     /\ pass' = [pass EXCEPT
                   ![i].status = IF ended THEN "done" ELSE @,
                   ![i].outcome = IF next = "return" THEN "ok"
                                  ELSE IF next = "throw" THEN "threw" ELSE @,
                   ![i].data = IF ended THEN None ELSE @,
                   ![i].logged = @ \/ caught]
     /\ lastApplied' = IF next = "return" THEN confFile ELSE lastApplied
     /\ console' = IF caught THEN {CatchLine(Site(i))} ELSE {}
     /\ pc' = IF next = "throw" /\ ~Catches(Site(i)) THEN "Exited"
              ELSE IF ended /\ i = 0 THEN "subscribe"
              ELSE pc

\* Render the text and writeFileSync it (peers.forEach on null throws).
UWC_Write ==
  /\ Alive /\ apply.step = "write"
  /\ LET data == pass[apply.pass].data
     IN \E ok \in (IF IsSome(data) THEN BOOLEAN ELSE {FALSE}) :
          /\ confFile' = IF ok THEN Some(RenderConfig(The(data), PrivateKey))
                         ELSE confFile
          /\ Advance("write", ok, iface, FALSE)
  /\ UNCHANGED <<phases, keyFiles, relayRows, rpc, profiles, changes, sub,
                 feed, delivered, stripFile, serving>>
  /\ UNCHANGED <<bootVars, apiVars>>

\* runCommand(`wg-quick strip wg0 > /tmp/wg0.strip`)
UWC_Strip ==
  /\ Alive /\ apply.step = "strip"
  /\ \E ok \in (IF WellFormed(The(confFile)) THEN BOOLEAN ELSE {FALSE}) :
       /\ stripFile' = IF ok THEN Some(Strip(The(confFile))) ELSE stripFile
       /\ Advance("strip", ok, iface, TRUE)
  /\ UNCHANGED <<phases, keyFiles, relayRows, rpc, profiles, changes, sub,
                 feed, delivered, confFile, serving>>
  /\ UNCHANGED <<bootVars, apiVars>>

\* runCommand(`wg syncconf wg0 /tmp/wg0.strip`): needs a running interface.
UWC_Syncconf ==
  /\ Alive /\ apply.step = "syncconf"
  /\ \E ok \in (IF iface.up THEN BOOLEAN ELSE {FALSE}) :
       Advance("syncconf", ok,
               IF ok THEN [iface EXCEPT !.peers = The(stripFile).peers]
               ELSE iface, TRUE)
  /\ UNCHANGED <<phases, keyFiles, relayRows, rpc, profiles, changes, sub,
                 feed, delivered, confFile, stripFile, serving>>
  /\ UNCHANGED <<bootVars, apiVars>>

\* runCommand(`wg-quick down wg0`): fails on an interface that is not up.
UWC_Down ==
  /\ Alive /\ apply.step = "down"
  /\ \E ok \in (IF iface.up THEN BOOLEAN ELSE {FALSE}) :
       Advance("down", ok,
               IF ok THEN [up |-> FALSE, peers |-> {}] ELSE iface, TRUE)
  /\ UNCHANGED <<phases, keyFiles, relayRows, rpc, profiles, changes, sub,
                 feed, delivered, confFile, stripFile, serving>>
  /\ UNCHANGED <<bootVars, apiVars>>

\* runCommand(`wg-quick up wg0`): fails when wg0 already exists.
UWC_Up ==
  /\ Alive /\ apply.step = "up"
  /\ \E ok \in (IF iface.up \/ ~WellFormed(The(confFile))
                 THEN {FALSE} ELSE BOOLEAN) :
       Advance("up", ok,
               IF ok THEN [up |-> TRUE, peers |-> ConfigPeers(The(confFile))]
               ELSE iface, TRUE)
  /\ UNCHANGED <<phases, keyFiles, relayRows, rpc, profiles, changes, sub,
                 feed, delivered, confFile, stripFile, serving>>
  /\ UNCHANGED <<bootVars, apiVars>>

\* ------------------------------------------------- reconciliation passes
\* Variant: the apply is called whatever the query returned.
ShouldApply_Always(data) == TRUE

\* `if (peers)` / `if (currentPeers)`: the apply runs on non-null data only.
ShouldApply(data) == IsSome(data)

\* Variant: no call site looks at the query error.
LogsQueryError_Never(site, error) == FALSE

\* The initial sync logs a query error; the change callback destructures
\* only `data` and never looks at the error.
LogsQueryError(site, error) == site = "initial" /\ error

\* Variant: an event arriving while a pass is in flight is coalesced into it.
ShouldReconcile_Coalesce(busy) == ~busy

\* The change callback has no guard: every event starts a pass.
ShouldReconcile(busy) == TRUE

\* The awaited active-peers query of pass i resolves on the JS thread.
HandleResponse(i) ==
  /\ JsIdle
  /\ pass[i].status = "answered"
  /\ IF ShouldApply(pass[i].data)
     THEN /\ pass' = [pass EXCEPT
                        ![i].status = "applying",
                        ![i].logged = LogsQueryError(Site(i), pass[i].error)]
          /\ apply' = [NoApply EXCEPT !.step = "write", !.pass = i,
                                      !.before = Some(iface)]
          /\ pc' = pc
     ELSE /\ pass' = [pass EXCEPT
                        ![i].status = "done",
                        ![i].data = None,
                        ![i].outcome = "skipped",
                        ![i].logged = LogsQueryError(Site(i), pass[i].error)]
          /\ apply' = apply
          /\ pc' = IF i = 0 THEN "subscribe" ELSE pc
  /\ UNCHANGED <<phases, keyFiles, relayRows, rpc, profiles, changes, sub,
                 feed, delivered, confFile, stripFile, iface, lastApplied,
                 serving>>
  /\ console' = IF LogsQueryError(Site(i), pass[i].error)
                THEN {"Error fetching peers"} ELSE {}
  /\ UNCHANGED <<bootVars, apiVars>>

\* main, B. Initial Sync, after the await.
Main_InitialResponse ==
  /\ pc = "syncWait"
  /\ HandleResponse(0)

\* The postgres_changes callback, after its await.
Callback_Response ==
  /\ pc = "Listening"
  /\ \E i \in PassIds \ {0} : HandleResponse(i)

\* Variant: the initial sync is not awaited before subscribing.
Main_Subscribe_NoAwait ==
  /\ pc \in {"syncWait", "subscribe"}
  /\ pc' = "Listening"
  /\ phases' = Append(phases, "Listening")
  /\ sub' = "subscribing"
  /\ serving' = TRUE
  /\ UNCHANGED <<keyFiles, relayRows, rpc, profiles, changes, feed, delivered,
                 pass, apply, confFile, stripFile, iface, lastApplied>>
  /\ UNCHANGED <<bootVars, apiVars>> /\ Quiet

\* main, C and D: request the realtime subscription, start the health server.
Main_Subscribe ==
  /\ pc = "subscribe"
  /\ pc' = "Listening"
  /\ phases' = Append(phases, "Listening")
  /\ sub' = "subscribing"
  /\ serving' = TRUE
  /\ UNCHANGED <<keyFiles, relayRows, rpc, profiles, changes, feed, delivered,
                 pass, apply, confFile, stripFile, iface, lastApplied>>
  /\ UNCHANGED <<bootVars, apiVars>> /\ Quiet

\* The realtime service joins the channel: status SUBSCRIBED is logged.
Realtime_Subscribed ==
  /\ sub = "subscribing"
  /\ sub' = "subscribed"
  /\ UNCHANGED <<pc, phases, keyFiles, relayRows, rpc, profiles, changes,
                 feed, delivered, pass, apply, confFile, stripFile, iface,
                 lastApplied, serving>>
  /\ UNCHANGED <<bootVars, apiVars>> /\ Quiet

\* Variant: a failed join stops the agent.
Realtime_ChannelError_Fatal ==
  /\ sub = "subscribing"
  /\ sub' = "error"
  /\ pc' = "Exited"
  /\ exitCode' = 1
  /\ console' = {"Realtime subscription error."}
  /\ UNCHANGED <<phases, keyFiles, relayRows, rpc, profiles, changes,
                 feed, delivered, pass, apply, confFile, stripFile, iface,
                 lastApplied, serving>>
  /\ UNCHANGED apiVars
  /\ UNCHANGED <<keyGen, genCalls, identity, firstIdentity, boots, regRuns,
                 envPublicIp, echoCalls, publicIp>>

\* The join fails: status CHANNEL_ERROR is logged, nothing else happens.
Realtime_ChannelError ==
  /\ sub = "subscribing"
  /\ sub' = "error"
  /\ UNCHANGED <<pc, phases, keyFiles, relayRows, rpc, profiles, changes,
                 feed, delivered, pass, apply, confFile, stripFile, iface,
                 lastApplied, serving>>
  /\ console' = {"Realtime subscription error."}
  /\ UNCHANGED <<bootVars, apiVars>>

\* The lowest pass id not used yet.
FreshPass ==
  CHOOSE j \in PassIds :
    /\ pass[j].status = "unused"
    /\ \A l \in PassIds : pass[l].status = "unused" => j <= l

\* The postgres_changes callback up to its await: one change event is
\* delivered and the full active-peers query is issued.
Callback_ChangeEvent ==
  /\ pc = "Listening"
  /\ JsIdle
  /\ \E k \in 1 .. Len(feed) :
       feed' = SubSeq(feed, 1, k - 1) \o SubSeq(feed, k + 1, Len(feed))
  /\ delivered' = delivered + 1
  /\ pass' = IF ShouldReconcile(\E j \in PassIds : InFlight(j))
             THEN [pass EXCEPT ![FreshPass].status = "fetching"]
             ELSE pass
  /\ UNCHANGED <<pc, phases, keyFiles, relayRows, rpc, profiles, changes, sub,
                 apply, confFile, stripFile, iface, lastApplied, serving>>
  /\ UNCHANGED <<bootVars, apiVars>> /\ Quiet

Next ==
  \/ Boot
  \/ Main_EnsureKeys
  \/ Main_GetPublicIp
  \/ Store_AnswerLookup
  \/ Main_AfterLookup
  \/ Store_AnswerInsert
  \/ Main_AfterInsert
  \/ Other_Register
  \/ Store_PeerChange
  \/ \E i \in PassIds : Store_AnswerQuery(i)
  \/ Main_InitialResponse
  \/ UWC_Write
  \/ UWC_Strip
  \/ UWC_Syncconf
  \/ UWC_Down
  \/ UWC_Up
  \/ Main_Subscribe
  \/ Realtime_Subscribed
  \/ Realtime_ChannelError
  \/ Callback_ChangeEvent
  \/ Callback_Response

Spec == Init /\ [][Next]_vars

\* ------------------------------------------------- restarts of the agent

\* docker-compose `restart: always`: the container is started again after
\* the process exits or is stopped.  /etc/wireguard is a host volume and the
\* store is remote, so key files, config files, the interface and the tables
\* survive; everything the process held in memory is gone.
Restart ==
  /\ pc /= "Start"
  /\ boots < MaxBoots
  /\ boots' = boots + 1
  /\ pc' = "Start"
  /\ phases' = <<>>
  /\ rpc' = NoRpc
  /\ sub' = "disconnected"
  /\ feed' = <<>>
  /\ delivered' = 0
  /\ pass' = [i \in PassIds |-> NoPass]
  /\ apply' = NoApply
  /\ lastApplied' = None
  /\ serving' = FALSE
  /\ identity' = None
  /\ echoCalls' = 0
  /\ publicIp' = None
  /\ exitCode' = -1
  /\ Quiet
  /\ UNCHANGED apiVars
  /\ UNCHANGED <<keyFiles, keyGen, genCalls, firstIdentity, regRuns,
                 envPublicIp, relayRows, profiles, changes, confFile,
                 stripFile, iface>>

\* Hosts with and without PUBLIC_IP in the environment: deploy-vps.sh leaves
\* it empty when its own detection fails and the operator enters nothing.
InitStartup ==
  /\ InitCommon
  /\ envPublicIp \in BOOLEAN

\* Startup up to the end of check/register, over restarts and with a
\* concurrent registration.
NextStartup ==
  \/ Boot
  \/ Main_EnsureKeys
  \/ Main_GetPublicIp
  \/ Store_AnswerLookup
  \/ Main_AfterLookup
  \/ Store_AnswerInsert
  \/ Main_AfterInsert
  \/ Restart
  \/ Other_Register

SpecStartup == InitStartup /\ [][NextStartup]_vars

\* ------------------------------------------- transport-level disconnects

\* The websocket to the realtime service drops; the client library rejoins
\* the channel by itself.  Changes made during the gap produce no event.
Realtime_Disconnect ==
  /\ sub = "subscribed"
  /\ sub' = "rejoining"
  /\ UNCHANGED <<pc, phases, keyFiles, relayRows, rpc, profiles, changes,
                 feed, delivered, pass, apply, confFile, stripFile, iface,
                 lastApplied, serving>>
  /\ UNCHANGED <<bootVars, apiVars>> /\ Quiet

\* The channel is joined again: the status callback runs with SUBSCRIBED and
\* writes "Realtime connected!" with console.log; it does nothing else.
Realtime_Rejoined ==
  /\ sub = "rejoining"
  /\ sub' = "subscribed"
  /\ UNCHANGED <<pc, phases, keyFiles, relayRows, rpc, profiles, changes,
                 feed, delivered, pass, apply, confFile, stripFile, iface,
                 lastApplied, serving>>
  /\ UNCHANGED <<bootVars, apiVars>> /\ Quiet

NextReconnect ==
  \/ Next
  \/ Realtime_Disconnect
  \/ Realtime_Rejoined

SpecReconnect == Init /\ [][NextReconnect]_vars

\* ------------------------------------------------- multi-line device names

\* An active profile of this relay whose device name holds line breaks.
TabletRow ==
  [id |-> 3, user_id |-> "u3", device_name |-> MultiLineName,
   public_key |-> "pkC", allowed_ip |-> "10.0.0.4", is_active |-> TRUE]

\* The registration API stores that profile: register_vpn_device inserts the
\* name it is given.
Store_RegisterTablet ==
  /\ changes < MaxChanges
  /\ TabletRow \notin profiles
  /\ changes' = changes + 1
  /\ profiles' = profiles \cup {TabletRow}
  /\ feed' = IF sub = "subscribed"
             THEN Append(feed, [eventType |-> "INSERT", row |-> TabletRow])
             ELSE feed
  /\ UNCHANGED <<pc, phases, keyFiles, relayRows, rpc, sub,
                 delivered, pass, apply, confFile, stripFile, iface,
                 lastApplied, serving>>
  /\ UNCHANGED <<bootVars, apiVars>> /\ Quiet

NextLabels ==
  \/ Next
  \/ Store_RegisterTablet

SpecLabels == Init /\ [][NextLabels]_vars

\* ------------------------------------------------------- malformed records

\* An active profile of this relay with an empty public key: public_key is
\* TEXT NOT NULL, which the empty string satisfies.
KeylessRow ==
  [id |-> 4, user_id |-> "u4", device_name |-> "desktop",
   public_key |-> "", allowed_ip |-> "10.0.0.5", is_active |-> TRUE]

\* Such a row is written to vpn_profiles for this relay.
Store_InsertKeyless ==
  /\ changes < MaxChanges
  /\ KeylessRow \notin profiles
  /\ changes' = changes + 1
  /\ profiles' = profiles \cup {KeylessRow}
  /\ feed' = IF sub = "subscribed"
             THEN Append(feed, [eventType |-> "INSERT", row |-> KeylessRow])
             ELSE feed
  /\ UNCHANGED <<pc, phases, keyFiles, relayRows, rpc, sub,
                 delivered, pass, apply, confFile, stripFile, iface,
                 lastApplied, serving>>
  /\ UNCHANGED <<bootVars, apiVars>> /\ Quiet

NextKeyless ==
  \/ Next
  \/ Store_InsertKeyless

SpecKeyless == Init /\ [][NextKeyless]_vars

\* ------------------------------------------------------ hung dependencies

\* The active-peers query of pass i gets no response, ever: the await has no
\* timeout and no abort signal, so the pass stays suspended at it.
Store_NeverAnswers(i) ==
  /\ pass[i].status = "fetching"
  /\ pass' = [pass EXCEPT ![i].status = "hung"]
  /\ UNCHANGED <<pc, phases, keyFiles, relayRows, rpc, profiles, changes, sub,
                 feed, delivered, apply, confFile, stripFile, iface,
                 lastApplied, serving>>
  /\ UNCHANGED <<bootVars, apiVars>> /\ Quiet

\* A wg / wg-quick subprocess never exits: execSync is called without a
\* timeout and blocks the JS thread for good.
Cmd_NeverReturns ==
  /\ Alive
  /\ apply.step \in {"strip", "syncconf", "down", "up"}
  /\ apply' = [apply EXCEPT !.step = "hung"]
  /\ UNCHANGED <<pc, phases, keyFiles, relayRows, rpc, profiles, changes, sub,
                 feed, delivered, pass, confFile, stripFile, iface,
                 lastApplied, serving>>
  /\ UNCHANGED <<bootVars, apiVars>> /\ Quiet

NextHang ==
  \/ Next
  \/ \E i \in PassIds : Store_NeverAnswers(i)
  \/ Cmd_NeverReturns

\* The agent, the store and the realtime service keep taking the steps they
\* can take: node runs every callback that is ready, and a dependency that
\* does respond responds in finite time.
SpecHang == Init /\ [][NextHang]_vars /\ WF_vars(Next)

\* --------------------------------------------- registration API: /register

\* The count the handler compares with the cap is the one its own query
\* returned before the RPC was sent.
CountSeen(read, now) == read

\* POST /register up to the answer of its count query: each request carries
\* a new public key; a count error answers 500.
Api_Register_Count(r) ==
  /\ reg[r].pc = "idle"
  /\ \E ok \in BOOLEAN :
       reg' = [reg EXCEPT ![r] =
                 IF ok THEN [pc |-> "counted", count |-> Cardinality(devices),
                             status |-> 0]
                 ELSE [pc |-> "done", count |-> 0, status |-> 500]]
  /\ UNCHANGED <<devices, allocs, alloc, agentVars>>

\* POST /register after the count: at the cap the request is refused with
\* 400; otherwise register_vpn_device runs in the store, where it refuses a
\* known key, inserts the profile, or fails.
Api_Register_Rpc(r) ==
  /\ reg[r].pc = "counted"
  /\ \E ok \in BOOLEAN, failed \in {400, 500} :
       LET seen == CountSeen(reg[r].count, Cardinality(devices))
           refused == seen >= DeviceCap
           inserted == ~refused /\ ok /\ r \notin devices
       IN /\ (refused \/ inserted) => failed = 400
          /\ refused => ok
          /\ devices' = IF inserted THEN devices \cup {r} ELSE devices
          /\ reg' = [reg EXCEPT ![r] =
                       [pc |-> "done", count |-> 0,
                        status |-> IF inserted THEN 200 ELSE failed]]
  /\ UNCHANGED <<allocs, alloc, agentVars>>

\* The API serving one user, next to a provisioned relay that is not started.
InitRegister ==
  /\ Init
  /\ keyFiles /\ relayRows = 1 /\ profiles = {} /\ iface.up

NextRegister ==
  \/ \E r \in Requests : Api_Register_Count(r)
  \/ \E r \in Requests : Api_Register_Rpc(r)

SpecRegister == InitRegister /\ [][NextRegister]_vars

\* ------------------------------------------ connection API: allocate_server_ip

\* Device profiles the calls name: 1 and 2 are active, 0 is unknown or
\* inactive.
ActiveProfiles == {1, 2}

\* Last octets of 10.0.0.0/24 handed to devices; 1 is the gateway.
Octets == 2 .. 254

\* Last octets of the relay's allocations.
UsedOctets(rows) == { a.octet : a \in rows }

\* Variant: the table has only the (profile, relay) constraint.
InsertAccepted_NoAddressUnique(row, rows) ==
  \A a \in rows : a.profile /= row.profile

\* The two UNIQUE constraints of vpn_server_allocations, for the rows of one
\* relay: one row per profile, one row per address.
InsertAccepted(row, rows) ==
  /\ \A a \in rows : a.profile /= row.profile
  /\ \A a \in rows : a.octet /= row.octet

\* The call up to its look-up of an existing allocation: an unknown profile
\* is refused, an existing allocation is returned.
Alloc_Check(c) ==
  /\ alloc[c].pc = "idle"
  /\ \E p \in ActiveProfiles \cup {0} :
       LET own == { a \in allocs : a.profile = p }
       IN alloc' = [alloc EXCEPT ![c] =
            IF p = 0
              THEN [pc |-> "done", profile |-> p, octet |-> 0,
                    success |-> FALSE]
            ELSE IF own /= {}
              THEN [pc |-> "done", profile |-> p,
                    octet |-> (CHOOSE a \in own : TRUE).octet,
                    success |-> TRUE]
            ELSE [pc |-> "checked", profile |-> p, octet |-> 0,
                  success |-> FALSE]]
  /\ UNCHANGED <<devices, reg, allocs, agentVars>>

\* The call reads the relay's used octets and takes the lowest free one.
Alloc_Pick(c) ==
  /\ alloc[c].pc = "checked"
  /\ LET free == Octets \ UsedOctets(allocs)
     IN alloc' = [alloc EXCEPT ![c] =
          IF free = {}
            THEN [@ EXCEPT !.pc = "done", !.success = FALSE]
          ELSE [@ EXCEPT !.pc = "picked",
                         !.octet = CHOOSE o \in free :
                                     \A q \in free : o <= q]]
  /\ UNCHANGED <<devices, reg, allocs, agentVars>>

\* The call inserts its row; a constraint violation is caught by the
\* function's exception handler, which returns success = false.
Alloc_Insert(c) ==
  /\ alloc[c].pc = "picked"
  /\ LET row == [id |-> c, profile |-> alloc[c].profile,
                 octet |-> alloc[c].octet]
         accepted == InsertAccepted(row, allocs)
     IN /\ allocs' = IF accepted THEN allocs \cup {row} ELSE allocs
        /\ alloc' = [alloc EXCEPT ![c] =
                       [@ EXCEPT !.pc = "done", !.success = accepted]]
  /\ UNCHANGED <<devices, reg, agentVars>>

\* The API allocating on one relay, which is provisioned and not started.
InitAllocate ==
  /\ Init
  /\ keyFiles /\ relayRows = 1 /\ profiles = {} /\ iface.up

NextAllocate ==
  \/ \E c \in Calls : Alloc_Check(c)
  \/ \E c \in Calls : Alloc_Pick(c)
  \/ \E c \in Calls : Alloc_Insert(c)

SpecAllocate == InitAllocate /\ [][NextAllocate]_vars

\* ================================================================ claims
EventPasses == PassIds \ {0}

Used(i) == pass[i].status /= "unused"

\* The apply whose record is in `apply` has ended.
ApplyEnded == apply.step = "idle" /\ apply.outcome \in {"ok", "threw"}

\* Index of the first failed hot-reload command in a trace, 0 if none.
HotReloadFailedAt(cmds) ==
  IF \E k \in 1 .. Len(cmds) :
       cmds[k][1] \in {"strip", "syncconf"} /\ ~cmds[k][2]
  THEN CHOOSE k \in 1 .. Len(cmds) :
         cmds[k][1] \in {"strip", "syncconf"} /\ ~cmds[k][2]
  ELSE 0

\* C1: reconciliation passes are serialized: at most one fetch -> render ->
\* apply pipeline (initial sync or change callback) is in progress at a time.
C1_PassesSerialized ==
  Cardinality({ i \in PassIds : InFlight(i) }) <= 1

\* C2: once every change has had its event delivered, every triggered pass
\* has finished and no fetch or apply failed, the last applied configuration
\* carries exactly the store's active peers of this relay.
C2_Converges ==
  ( /\ pc = "Listening"
    /\ feed = <<>>
    /\ delivered = changes
    /\ delivered >= 1
    /\ \A i \in PassIds : Used(i) =>
         pass[i].status = "done" /\ pass[i].outcome = "ok" )
  => ( /\ IsSome(lastApplied)
       /\ ConfigPeers(The(lastApplied)) = StorePeers(profiles) )

\* C3: k delivered change events have started exactly k passes, each with
\* its own query; a query's rows are the store's active rows at the instant
\* it ran, and the text a pass writes is rendered from the rows of its own
\* query.
C3_OnePassPerEvent ==
  /\ [](Cardinality({ i \in EventPasses : Used(i) }) = delivered)
  /\ [](\A i \in EventPasses :
          pass[i].status \in {"fetching", "answered", "applying"} => Used(i))
  /\ [][\A i \in EventPasses :
          (pass[i].status = "fetching" /\ pass'[i].status = "answered" /\
           IsSome(pass'[i].data))
          => (/\ Range(The(pass'[i].data)) = profiles
              /\ Len(The(pass'[i].data)) = Cardinality(profiles))]_vars
  /\ []((apply.step \notin {"idle", "write"} /\ apply.pass \in EventPasses)
        => (/\ IsSome(pass[apply.pass].data)
            /\ confFile = Some(RenderConfig(The(pass[apply.pass].data),
                                            PrivateKey))))

C3_Witness ==
  /\ delivered = 2
  /\ pass[1].status = "done" /\ pass[1].outcome = "ok"
  /\ pass[2].status = "done" /\ pass[2].outcome = "ok"

\* C4: a change-event pass whose active-peers query failed attempts no
\* apply: it ends as skipped and updateWireGuardConfig never runs for it, so
\* the file, the commands and the interface are left alone.
C4_NoApplyOnQueryFailure ==
  \A i \in EventPasses :
    pass[i].error =>
      /\ pass[i].status \in {"answered", "done"}
      /\ pass[i].outcome \in {"none", "skipped"}
      /\ apply.pass /= i

C4_Witness ==
  \E i \in EventPasses :
    pass[i].error /\ pass[i].status = "done" /\ pass[i].outcome = "skipped"

\* C5: a change-event pass whose active-peers query failed has logged the
\* failure by the time it ends.
C5_QueryFailureLogged ==
  \A i \in EventPasses :
    (pass[i].status = "done" /\ pass[i].error) => pass[i].logged

\* C6: after an apply that failed, an interface that was up before the apply
\* is still up and still carries the peers it carried before.
C6_KeepsLastConfig ==
  (ApplyEnded /\ apply.outcome = "threw" /\ The(apply.before).up)
  => (iface.up /\ iface.peers = The(apply.before).peers)

\* C7: within one apply a bring-down is run only after strip or syncconf has
\* failed; an apply whose hot reload succeeded has run no bring-down.
C7_DownOnlyAfterHotReloadFailed ==
  \A k \in 1 .. Len(apply.cmds) :
    apply.cmds[k][1] = "down" =>
      \E j \in 1 .. (k - 1) :
        apply.cmds[j][1] \in {"strip", "syncconf"} /\ ~apply.cmds[j][2]

\* The interface already carried the peers of the text that was applied
\* again by hot reload.
C7_Witness ==
  /\ ApplyEnded /\ apply.outcome = "ok"
  /\ apply.pass \in EventPasses
  /\ apply.cmds = << <<"strip", TRUE>>, <<"syncconf", TRUE>> >>
  /\ The(apply.before).up
  /\ The(apply.before).peers = iface.peers
  /\ iface.peers /= {}
  /\ IsSome(lastApplied) /\ ConfigPeers(The(lastApplied)) = iface.peers

\* C8: an apply whose hot reload failed ends with bring-down then bring-up,
\* whatever the bring-down returned, and returns or throws as the bring-up
\* did; a successful bring-up runs the newly written file.
C8_FallbackRestart ==
  (ApplyEnded /\ HotReloadFailedAt(apply.cmds) > 0) =>
    LET n == Len(apply.cmds)
        f == HotReloadFailedAt(apply.cmds)
    IN /\ n = f + 2
       /\ apply.cmds[n - 1][1] = "down"
       /\ apply.cmds[n][1] = "up"
       /\ apply.outcome = IF apply.cmds[n][2] THEN "ok" ELSE "threw"
       /\ apply.cmds[n][2] =>
            iface = [up |-> TRUE, peers |-> ConfigPeers(The(confFile))]

C8_Witness ==
  /\ ApplyEnded /\ apply.outcome = "ok"
  /\ Len(apply.cmds) >= 2
  /\ apply.cmds[Len(apply.cmds) - 1] = <<"down", FALSE>>
  /\ apply.cmds[Len(apply.cmds)] = <<"up", TRUE>>

\* C9: the process never exits once the initial sync has begun, and a pass
\* whose apply threw has logged it and left the agent listening (or about
\* to subscribe) with the JS thread free for the next event.
C9_ApplyFailureNotFatal ==
  /\ pc = "Exited" => \A i \in PassIds : ~Used(i)
  /\ \A i \in PassIds :
       pass[i].outcome = "threw" =>
         /\ pass[i].logged
         /\ pass[i].status = "done"
         /\ pc \in {"subscribe", "Listening"}
         /\ apply.pass = i => JsIdle

\* An event pass runs after both the initial apply and an event apply threw.
C9_Witness ==
  /\ pass[0].outcome = "threw"
  /\ pass[1].outcome = "threw"
  /\ pass[2].status = "applying"

PhaseOrder == <<"Provisioning", "Registering", "InitialSync", "Listening">>

\* C10: the phases entered so far are a prefix of Provisioning, Registering,
\* InitialSync, Listening, and a phase is entered only when the previous one
\* has finished: keys exist, no registration query is pending, the initial
\* pass is done.
C10_PhaseOrder ==
  /\ Len(phases) <= Len(PhaseOrder)
  /\ \A k \in 1 .. Len(phases) : phases[k] = PhaseOrder[k]
  /\ Len(phases) >= 2 => keyFiles
  /\ Len(phases) >= 3 => rpc = NoRpc
  /\ Len(phases) >= 4 => pass[0].status = "done" /\ (apply.pass = 0 => JsIdle)

C10_Witness ==
  /\ phases = PhaseOrder
  /\ pass[0].outcome = "ok"

\* ------------------------------------------------------ startup failures

\* Provisioning has failed: main() is past ensureKeys() without a key pair.
ProvisioningFailed ==
  phases = <<"Provisioning">> /\ pc /= "ensureKeys" /\ identity = None

\* C11: when identity provisioning fails (the key generation fails or a key
\* file cannot be read) the process exits with status 1 and none of the later
\* steps has happened: no address resolution, no directory query or insert, no
\* peer fetch, no config write, no subscription, no health endpoint.
C11_ProvisioningFailureFatal ==
  ProvisioningFailed =>
    /\ pc = "Exited" /\ exitCode = 1
    /\ publicIp = None /\ echoCalls = 0
    /\ rpc = NoRpc /\ regRuns = 0
    /\ \A i \in PassIds : ~Used(i)
    /\ apply = NoApply /\ lastApplied = None
    /\ sub = "disconnected" /\ ~serving

C11_Witness ==
  /\ ProvisioningFailed
  /\ pc = "Exited"
  /\ "Failed to generate/read keys" \in console

\* The address could not be resolved: main() is past getPublicIp() with no
\* address or an empty one.
AddressUnresolved ==
  /\ phases = <<"Provisioning", "Registering">>
  /\ pc /= "getPublicIp"
  /\ publicIp \in {None, Some("")}

\* C12: when the public address cannot be resolved (no override, and the echo
\* call fails or returns an empty string) the process exits with status 1
\* before any directory query or insert, peer fetch, config write or
\* subscription; with an override configured the override is the address and
\* the echo service is never called.
C12_AddressFailureFatal ==
  /\ AddressUnresolved =>
       /\ pc = "Exited" /\ exitCode = 1
       /\ ~envPublicIp /\ echoCalls = 1
       /\ rpc = NoRpc
       /\ \A i \in PassIds : ~Used(i)
       /\ apply = NoApply
       /\ sub = "disconnected" /\ ~serving
  /\ envPublicIp =>
       /\ echoCalls = 0
       /\ IsSome(publicIp) => publicIp = Some(OverrideIp)
  /\ (~envPublicIp /\ IsSome(publicIp)) =>
       publicIp = Some(EchoIp) /\ echoCalls = 1

C12_Witness ==
  /\ AddressUnresolved
  /\ ~envPublicIp /\ echoCalls = 1
  /\ pc = "Exited"
  /\ "Failed to get public IP" \in console

\* ------------------------------------------------------ identity stability

\* C13: the relay identity is stable across restarts: the key-generation
\* command runs only in a step that finds the private-key file absent, key
\* files that exist are never removed or rewritten, and every boot returns
\* the key pair the first successful boot returned.
C13_IdentityStable ==
  /\ [][genCalls' /= genCalls => ~keyFiles]_vars
  /\ [][keyFiles => (keyFiles' /\ keyGen' = keyGen)]_vars
  /\ [](IsSome(identity) =>
          /\ IsSome(firstIdentity)
          /\ The(identity) = The(firstIdentity).pair)

C13_Witness ==
  /\ boots = 2
  /\ IsSome(identity)
  /\ IsSome(firstIdentity)
  /\ The(firstIdentity).boot = 1
  /\ The(identity) = The(firstIdentity).pair
  /\ genCalls = 1

\* ------------------------------------------------------- self-registration

RegistrationSucceeded ==
  /\ rpc.state = "answered"
  /\ rpc.found \/ (rpc.kind = "insert" /\ ~rpc.error)

C15_RegistrationFailureNotFatal ==
  /\ [][(pc = "lookupWait" /\ pc' /= pc /\ pc' /= "Start" /\ rpc.error) =>
          /\ "Error fetching server info" \in console'
          /\ pc' = "insertWait"
          /\ rpc'.kind = "insert"]_vars
  /\ [][(pc = "insertWait" /\ pc' /= pc /\ pc' /= "Start") =>
          /\ rpc.error => "Failed to register server" \in console'
          /\ pc' = "syncWait"
          /\ pass'[0].status = "fetching"]_vars
  /\ [](pc = "Exited" => (rpc = NoRpc /\ Len(phases) <= 2))
  /\ [](pc \in {"subscribe", "Listening"} => pass[0].status = "done")
  /\ [](pc = "Listening" => sub /= "disconnected")

C15_Witness ==
  /\ relayRows = 0
  /\ pc = "Listening"
  /\ pass[0].status = "done"
  /\ sub = "subscribed"

\* ------------------------------------------- failures on the way to Listening

\* The initial sync has ended in failure: its query returned an error, or
\* updateWireGuardConfig threw.
InitialSyncFailed ==
  /\ pass[0].status = "done"
  /\ pass[0].error \/ pass[0].outcome = "threw"

\* C16: a failure of the initial sync (query error or apply failure) is
\* logged by the step in which it surfaces and main() goes on to the
\* subscription: the subscribe call is enabled, and Listening is entered with
\* the channel join requested and the health endpoint started.
C16_InitialSyncFailureNotFatal ==
  /\ [][(~InitialSyncFailed /\ InitialSyncFailed') =>
          /\ console' \in {{"Error fetching peers"}, {"Initial sync failed"}}
          /\ pc' = "subscribe"]_vars
  /\ [](InitialSyncFailed =>
          /\ pass[0].logged
          /\ pc \in {"subscribe", "Listening"})
  /\ []((InitialSyncFailed /\ pc = "subscribe") => ENABLED Main_Subscribe)
  /\ []((InitialSyncFailed /\ pc = "Listening") =>
          (sub /= "disconnected" /\ serving))

C16_Witness ==
  /\ InitialSyncFailed
  /\ pass[0].outcome = "threw"
  /\ pc = "Listening"
  /\ sub = "subscribed"
  /\ serving

C18_ResyncOnRejoin ==
  [][(sub = "rejoining" /\ sub' = "subscribed") =>
       \E i \in PassIds : ~Used(i) /\ Used(i)']_vars

\* ---------------------------------------------------------- store writes

\* C19: the agent never creates, updates or deletes a PeerRecord: the peer
\* table changes only in a step of the registrar, never in startup or in a
\* reconciliation pass.  The agent's one write is the RelayRecord insert of
\* registration: it is issued once, from the lookup, adds one row when the
\* store accepts it, and no store request of main() is open after it.
C19_NoPeerWrites ==
  /\ [][profiles' /= profiles => changes' = changes + 1]_vars
  /\ [][(rpc'.kind = "insert" /\ rpc.kind /= "insert") =>
          (pc = "lookupWait" /\ regRuns = 0)]_vars
  /\ [][(relayRows' /= relayRows /\ rpc' /= rpc) =>
          /\ rpc.kind = "insert" /\ rpc.state = "sent"
          /\ relayRows' = relayRows + 1]_vars
  /\ [](pc \in {"syncWait", "subscribe", "Listening"} =>
          (rpc = NoRpc /\ regRuns = 1))

C19_Witness ==
  /\ pc = "Listening"
  /\ relayRows = 1
  /\ profiles /= {}
  /\ pass[0].outcome = "ok"
  /\ \E i \in EventPasses : pass[i].outcome = "ok"

\* ------------------------------------------------------------- rendering

\* C20: the configuration the applier has written for a list of N records
\* has exactly one interface section, the first, with the relay's private key
\* and listen port 51820, followed by exactly N peer sections in input order,
\* the i-th with the i-th record's public key and its tunnel address as /32.
C20_RenderedSections ==
  (apply.step \notin {"idle", "write"} /\ apply.wrote) =>
    LET rows == The(pass[apply.pass].data)
        secs == Sections(The(confFile))
    IN /\ Len(secs) = 1 + Len(rows)
       /\ secs[1] = [section |-> "Interface",
                     PrivateKey |-> <<PrivateKey>>,
                     ListenPort |-> <<51820>>]
       /\ \A i \in 1 .. Len(rows) :
            secs[i + 1] = [section |-> "Peer",
                           PublicKey |-> <<rows[i].public_key>>,
                           AllowedIPs |-> <<rows[i].allowed_ip, 32>>]

\* -------------------------------------------------------- malformed skip

\* A record the renderer can use: it has a public key and a tunnel address.
ValidRecord(r) == r.public_key /= "" /\ r.allowed_ip /= ""

\* C21: a record with an empty public key or tunnel address is skipped: the
\* written text has one peer section per valid record of the list and is
\* accepted by wg, so the apply that follows is not aborted by the record.
C21_MalformedSkipped ==
  (apply.step \notin {"idle", "write"} /\ apply.wrote) =>
    LET rows == The(pass[apply.pass].data)
        secs == Sections(The(confFile))
    IN /\ Len(secs) - 1 =
            Cardinality({ i \in 1 .. Len(rows) : ValidRecord(rows[i]) })
       /\ WellFormed(The(confFile))

\* ------------------------------------------------- determinism of the text

\* The public keys of a fetched list, and of the peer sections of a text, in
\* order; public_key is UNIQUE in the store, so it identifies the record.
RowKeys(rows) == [i \in 1 .. Len(rows) |-> rows[i].public_key]

TextKeys(config) ==
  LET secs == Sections(config)
  IN [j \in 1 .. Len(secs) - 1 |-> secs[j + 1].PublicKey[1]]

\* The running apply has written its file, and the last apply that returned
\* had written its file from the list `same` relates to the running one's.
Rewrites(same(_, _)) ==
  /\ apply.step \notin {"idle", "write"} /\ apply.wrote
  /\ IsSome(lastApplied)
  /\ same(RowKeys(The(pass[apply.pass].data)), TextKeys(The(lastApplied)))

SameList(a, b) == a = b

SameSet(a, b) == Range(a) = Range(b)

\* C23: the written text does not depend on the order in which the store
\* returns the rows: a pass that fetched the same set of peers as the pass
\* whose apply last returned, in whatever row order, writes the same text.
C23_OrderIndependent ==
  Rewrites(SameSet) => confFile = lastApplied

\* -------------------------------------------------------- hung dependencies

\* C24: a hung dependency cannot wedge the pipeline: every pass that has
\* issued its query eventually finishes, and every change event emitted to
\* the agent is eventually delivered to the callback.
C24_PassesFinish ==
  /\ \A i \in PassIds :
       (pass[i].status = "fetching") ~> (pass[i].status = "done" \/ ~Alive)
  /\ (feed /= <<>>) ~> (feed = <<>>)

\* ------------------------------------------------------------- device cap

\* C25: after any interleaving of POST /register requests of one user, the
\* user has at most 5 device records.
C25_DeviceCap ==
  Cardinality(devices) <= DeviceCap

\* ------------------------------------------------- tunnel address uniqueness

\* C26: on one relay no two allocation rows carry the same tunnel address,
\* whatever the interleaving of the allocate_server_ip calls; a call that
\* returned success = false inserted nothing, and a call that returned
\* success = true names an address that is allocated to its profile.
C26_AddressesUnique ==
  /\ \A a, b \in allocs : a.octet = b.octet => a = b
  /\ \A c \in Calls :
       alloc[c].pc = "done" =>
         IF alloc[c].success
           THEN \E a \in allocs : /\ a.profile = alloc[c].profile
                                  /\ a.octet = alloc[c].octet
         ELSE \A a \in allocs : a.id /= c

\* Two calls for different profiles picked the same address: one was
\* inserted, the other returned success = false.
C26_Witness ==
  \E c, d \in Calls :
    /\ alloc[c].pc = "done" /\ alloc[c].success
    /\ alloc[d].pc = "done" /\ ~alloc[d].success
    /\ alloc[c].profile /= alloc[d].profile /\ alloc[d].profile /= 0
    /\ alloc[c].octet = alloc[d].octet
    /\ \E a \in allocs : a.id = c /\ a.octet = alloc[c].octet

\* ------------------------------------------------ initial sync, then events

\* C27: while the initial sync's fetch or apply is in progress the
\* subscription has not been requested, no change event is queued and no
\* event-triggered pass has started; once the subscription is requested the
\* initial pass is over and its apply has returned.
C27_SubscribeAfterInitialSync ==
  /\ InFlight(0) =>
       /\ sub = "disconnected"
       /\ feed = <<>>
       /\ \A i \in EventPasses : ~Used(i)
  /\ sub /= "disconnected" =>
       /\ pass[0].status = "done"
       /\ (apply.pass = 0 => JsIdle)

\* A peer change is committed while the initial sync's apply is running its
\* hot reload: nothing is subscribed and no event pass exists.
C27_Witness ==
  /\ pass[0].status = "applying"
  /\ apply.pass = 0 /\ apply.step = "syncconf"
  /\ changes >= 1
  /\ sub = "disconnected"

\* ------------------------------------------------------- no missed change

\* C28: when the subscription is established, no event is queued, every
\* started pass has finished and no fetch or apply failed, the applied
\* configuration carries the store's active peers of this relay, whenever
\* the changes were committed.
C28_NoChangeMissed ==
  ( /\ pc = "Listening"
    /\ sub = "subscribed"
    /\ feed = <<>>
    /\ JsIdle
    /\ \A i \in PassIds : Used(i) =>
         pass[i].status = "done" /\ pass[i].outcome = "ok" )
  => ( /\ IsSome(lastApplied)
       /\ ConfigPeers(The(lastApplied)) = StorePeers(profiles) )

\* ------------------------------------------------- interface and file agree

\* The running interface carries the peers of the config file on disk.
InterfaceMatchesFile ==
  iface.peers = (IF IsSome(confFile) THEN ConfigPeers(The(confFile)) ELSE {})

\* C29: when an apply has returned without throwing, the interface is up
\* and carries exactly the peers of the config file on disk; whenever no
\* apply is running and the two differ, the last apply threw.
C29_InterfaceMatchesFile ==
  /\ (ApplyEnded /\ apply.outcome = "ok") =>
       iface.up /\ IsSome(confFile) /\ InterfaceMatchesFile
  /\ (JsIdle /\ ~InterfaceMatchesFile) => apply.outcome = "threw"

\* An apply has returned after a failed hot reload and a successful
\* bring-up, with one peer or more in the file it wrote.
C29_Witness ==
  /\ ApplyEnded /\ apply.outcome = "ok"
  /\ Len(apply.cmds) >= 2
  /\ apply.cmds[Len(apply.cmds)] = <<"up", TRUE>>
  /\ ConfigPeers(The(confFile)) /= {}
  /\ InterfaceMatchesFile

\* ------------------------------------------------------------ atomic apply

\* An apply is between its first step and its return or throw.
ApplyRunning == apply.step /= "idle"

\* C30: while an apply is running no other pass is applying, the file on
\* disk after the write is the text rendered from the rows of the apply's
\* own pass, and the stripped file pushed by syncconf is derived from that
\* file; and no step taken while it runs hands another pass's response to
\* the agent, starts another pass or touches another pass except for the
\* store answering its query.
C30_ApplyAtomic ==
  /\ [](ApplyRunning =>
          /\ apply.pass \in PassIds
          /\ pass[apply.pass].status = "applying"
          /\ \A i \in PassIds \ {apply.pass} : pass[i].status /= "applying"
          /\ apply.wrote =>
               confFile = Some(RenderConfig(The(pass[apply.pass].data),
                                            PrivateKey))
          /\ apply.step = "syncconf" =>
               stripFile = Some(Strip(The(confFile))))
  /\ [][ApplyRunning =>
          /\ apply'.pass = apply.pass
          /\ \A i \in PassIds \ {apply.pass} :
               \/ pass'[i] = pass[i]
               \/ /\ pass[i].status = "fetching"
                  /\ pass'[i].status = "answered"]_vars

\* A hot reload is being pushed while another pass's response is waiting.
C30_Witness ==
  /\ apply.step = "syncconf" /\ apply.wrote
  /\ \E i \in PassIds \ {apply.pass} : pass[i].status = "answered"

====
